---- MODULE Spec2Model ----
(***************************************************************************)
(* State tracking of the MUI plugin: the registry MUIState (mui/utils.py)  *)
(* and the tree view StateListWidget (mui/dockwidgets/state_list_widget.py)*)
(*                                                                         *)
(* Python's Optional[T] is modelled as a set with at most one element:     *)
(* None is {} and a present value v is {v}.  A dict is a function whose     *)
(* DOMAIN is the key set.                                                  *)
(***************************************************************************)
EXTENDS Integers, Sequences, FiniteSets, TLC

\* ------------------------------------------------------------------ bounds
\* state ids are 1..MaxId
MaxId == 2
\* at most MaxListeners callbacks are registered on one MUIState
MaxListeners == 2
\* instruction addresses are 0..MaxAddr
MaxAddr == 1
\* update sequences are followed for MaxUpdates updates
MaxUpdates == 3

StateIds == 1..MaxId
Address == 0..MaxAddr
None == {}
Some(v) == {v}
OptAddress == {None} \cup {Some(a) : a \in Address}
\* the callables an owner may pass to on_state_change
Callbacks == {"cb1", "cb2"}
\* a callable that raises when it is called
RaisingCallbacks == {"cb_raises"}
AnyCallbacks == Callbacks \cup RaisingCallbacks
\* a callable that calls notify_states_changed(InnerMap) on the registry that
\* invoked it, unless it is itself running inside such a nested call
ReentrantCallbacks == {"cb_renotify"}

\* ------------------------------------------------------- state descriptors
\* manticore.utils.enums.StateStatus, as state_list_widget.py uses it
StateStatus ==
  {"running", "waiting_for_worker", "waiting_for_solver", "stopped", "destroyed"}
\* a status value that is not a member of StateStatus (what _create_item
\* reports as "Unknown status")
UnknownStatus == "unknown"
AnyStatus == StateStatus \cup {UnknownStatus}

\* StateDescriptor, the fields this code reads
Descriptor(id, status, pc, last_pc) ==
  [state_id |-> id, status |-> status, pc |-> pc, last_pc |-> last_pc]

EmptyMap == [i \in {} |-> None]

\* every Dict[int, StateDescriptor] over ids, the descriptor fields taken
\* from the set fields of triples <<status, pc, last_pc>>
MapsWith(ids, fields) ==
  UNION { { [i \in D |-> Descriptor(i, f[i][1], f[i][2], f[i][3])] : f \in [D -> fields] }
          : D \in SUBSET ids }

\* the maps of the registry's specifications: the statuses of the end-to-end
\* scenario and one status outside the enum; no instruction information
SampleStatuses == {"running", "stopped", UnknownStatus}
SampleMaps == MapsWith(StateIds, SampleStatuses \X {None} \X {None})
\* the maps of the end-to-end scenario: running and stopped states
ScenarioStatuses == {"running", "stopped"}
ScenarioMaps == MapsWith(StateIds, ScenarioStatuses \X {None} \X {None})
\* the maps of the end-to-end scenario
Scenario1 == [i \in {1} |-> Descriptor(1, "running", None, None)]
Scenario2 ==
  [i \in {1, 2} |-> IF i = 1 THEN Descriptor(1, "stopped", None, None)
                    ELSE Descriptor(2, "running", None, None)]
\* the maps of the update sequences: the empty map and those of the scenario
SerialMaps == {EmptyMap, Scenario1, Scenario2}
\* the maps of the address queries: every pc / last_pc combination
AddressMaps == MapsWith(StateIds, {"running"} \X OptAddress \X OptAddress)
\* the maps of the widget's specifications: every status of the enum, and
\* with the status outside it; no instruction information
EnumMaps == MapsWith(StateIds, StateStatus \X {None} \X {None})
StatusMaps == MapsWith(StateIds, AnyStatus \X {None} \X {None})

VARIABLES
  states,                  \* MUIState.states
  state_change_listeners,  \* MUIState.state_change_listeners
  calls,                   \* the callback invocations of the last notify_states_changed
  ret,                     \* the last query or update and what it returned or raised
  wstates,                 \* StateListWidget.states
  state_items,             \* StateListWidget.state_items: id -> tree item
  children,                \* the child items of each of the four lists, in order
  texts,                   \* the text of the header and of each list
  outcome,                 \* how the last StateListWidget.notifyStatesChanged ended
  request,                 \* the last call made: the method and its argument
  rpc,                     \* the RPC call in progress on the client channel
  history                  \* the updates of a followed sequence, as they were made

registryVars == <<states, state_change_listeners, calls, ret>>
widgetVars == <<wstates, state_items, children, texts, outcome>>
vars == <<states, state_change_listeners, calls, ret,
          wstates, state_items, children, texts, outcome, request, rpc, history>>

Request(op, arg) == [op |-> op, arg |-> arg]

NoRet == [op |-> "none", id |-> 0, value |-> None, exc |-> "none"]

\* ---------------------------------------------------------------- MUIState
\* MUIState.__init__
MUIStateInit ==
  /\ states = EmptyMap
  /\ state_change_listeners = <<>>
  /\ calls = <<>>
  /\ ret = NoRet

\* MUIState.get_state on the held map held
get_state(held, state_id) ==
  IF state_id \in DOMAIN held THEN Some(held[state_id]) ELSE None

\* get_state_address with truthiness tests (if state.pc: ...) in place of
\* isinstance(..., int): the address 0 counts as missing
get_state_address_truthy(held, state_id) ==
  LET state == get_state(held, state_id)
      present(x) == x # None /\ x # Some(0) IN
  IF state = None THEN [value |-> None, exc |-> "none"]
  ELSE LET d == CHOOSE x \in state : TRUE IN
       IF present(d.pc) THEN [value |-> d.pc, exc |-> "none"]
       ELSE IF present(d.last_pc) THEN [value |-> d.last_pc, exc |-> "none"]
       ELSE [value |-> None, exc |-> "none"]

\* MUIState.get_state_address on the held map held;
\* isinstance(x, int) is true of every address, 0 included, and false of None
get_state_address(held, state_id) ==
  LET state == get_state(held, state_id) IN
  IF state = None THEN [value |-> None, exc |-> "none"]
  ELSE LET d == CHOOSE x \in state : TRUE IN
       IF d.pc # None THEN [value |-> d.pc, exc |-> "none"]
       ELSE IF d.last_pc # None THEN [value |-> d.last_pc, exc |-> "none"]
       ELSE [value |-> None, exc |-> "none"]

\* the loop with self.states assigned before it: the callbacks get the new
\* map as old_states and find it already held
InvokeListeners_after_assign(listeners, old_states, new_states, held) ==
  [k \in 1..Len(listeners) |->
     [callback |-> listeners[k], old |-> new_states, new |-> new_states, held |-> new_states]]

\* the loop over reversed(self.state_change_listeners)
InvokeListeners_reversed(listeners, old_states, new_states, held) ==
  [k \in 1..Len(listeners) |->
     [callback |-> listeners[Len(listeners) + 1 - k],
      old |-> old_states, new |-> new_states, held |-> held]]

\* the loop that calls every entry of the list and lets the exception of a
\* callback through only when it is done
InvokeListeners_raises_at_end(listeners, old_states, new_states, held) ==
  [k \in 1..Len(listeners) |->
     [callback |-> listeners[k], old |-> old_states, new |-> new_states, held |-> held]]

\* the map a re-entrant callback passes to its nested notify_states_changed
InnerMap == [i \in {1} |-> Descriptor(1, "running", None, None)]

\* the loop of notify_states_changed from its entry k on, in a call at
\* nesting depth depth: listeners[k] is called with (old_states, new_states);
\* the exception of a raising callback leaves the loop; a re-entrant callback
\* of the outermost call runs a whole nested notify_states_changed(InnerMap),
\* loop and assignment, before it returns. w is the registry as the loop has
\* left it so far: the invocations made, self.states, whether a callback raised
RECURSIVE NotifyLoop(_, _, _, _, _, _)
NotifyLoop(listeners, k, old_states, new_states, w, depth) ==
  IF k > Len(listeners) \/ w.raised THEN w
  ELSE
    LET callback == listeners[k]
        called == [w EXCEPT !.calls = Append(@, [callback |-> callback, old |-> old_states,
                                                 new |-> new_states, held |-> w.held])] IN
    IF callback \in RaisingCallbacks THEN [called EXCEPT !.raised = TRUE]
    ELSE IF callback \in ReentrantCallbacks /\ depth = 1
    THEN LET looped == NotifyLoop(listeners, 1, called.held, InnerMap, called, depth + 1)
             nested == IF looped.raised THEN looped ELSE [looped EXCEPT !.held = InnerMap] IN
         NotifyLoop(listeners, k + 1, old_states, new_states, nested, depth)
    ELSE NotifyLoop(listeners, k + 1, old_states, new_states, called, depth)

\* the loop of notify_states_changed: one invocation per entry of the list,
\* in list order, each with (old_states, new_states), up to the first callback
\* that raises, with the invocations of nested calls where they happen; held
\* is self.states as the callback finds it
InvokeListeners(listeners, old_states, new_states, held) ==
  NotifyLoop(listeners, 1, old_states, new_states,
             [calls |-> <<>>, held |-> held, raised |-> FALSE], 1).calls

\* self.states when the loop of notify_states_changed is left
HeldAfterLoop(listeners, old_states, new_states, held) ==
  NotifyLoop(listeners, 1, old_states, new_states,
             [calls |-> <<>>, held |-> held, raised |-> FALSE], 1).held

\* whether a callback among the invoked ones raised
CallbackRaised(invoked) ==
  \E k \in 1..Len(invoked) : invoked[k].callback \in RaisingCallbacks

\* self.states.update(new_states) in place of the assignment
HeldAfterNotify_merged(old_states, new_states) ==
  [i \in DOMAIN old_states \cup DOMAIN new_states |->
     IF i \in DOMAIN new_states THEN new_states[i] ELSE old_states[i]]

\* the value of self.states with the assignment of line 86 left out
HeldAfterNotify_not_assigned(old_states, new_states) == old_states

\* the value of self.states when notify_states_changed returns
HeldAfterNotify(old_states, new_states) == new_states

\* MUIState.on_state_change
OnStateChange(callback) ==
  /\ Len(state_change_listeners) < MaxListeners
  /\ state_change_listeners' = Append(state_change_listeners, callback)
  /\ UNCHANGED <<states, calls, ret>>
  /\ UNCHANGED widgetVars
  /\ request' = Request("on_state_change", callback)
  /\ UNCHANGED <<rpc, history>>

\* notify_states_changed that assigns only when the map it read on entry is
\* still the held one: if self.states is old_states: self.states = new_states
MUIStateNotify_guarded_assign(new_states) ==
  LET old_states == states
      invoked == InvokeListeners(state_change_listeners, old_states, new_states, states)
      left == HeldAfterLoop(state_change_listeners, old_states, new_states, states) IN
  /\ calls' = invoked
  /\ states' = IF CallbackRaised(invoked) \/ left # old_states THEN left
                ELSE HeldAfterNotify(old_states, new_states)
  /\ ret' = [op |-> "notify_states_changed", id |-> 0, value |-> None,
             exc |-> IF CallbackRaised(invoked) THEN "CallbackError" ELSE "none"]
  /\ UNCHANGED state_change_listeners

\* MUIState.notify_states_changed, its effect on the MUIState; the exception
\* of a callback leaves the method before the assignment
MUIStateNotify(new_states) ==
  LET old_states == states
      invoked == InvokeListeners(state_change_listeners, old_states, new_states, states) IN
  /\ calls' = invoked
  /\ states' = IF CallbackRaised(invoked)
                THEN HeldAfterLoop(state_change_listeners, old_states, new_states, states)
                ELSE HeldAfterNotify(old_states, new_states)
  /\ ret' = [op |-> "notify_states_changed", id |-> 0, value |-> None,
             exc |-> IF CallbackRaised(invoked) THEN "CallbackError" ELSE "none"]
  /\ UNCHANGED state_change_listeners

\* a call of MUIState.notify_states_changed in a followed sequence: the
\* call, and a record of it in history
SerialNotifyStatesChanged(new_states) ==
  /\ Len(history) < MaxUpdates
  /\ MUIStateNotify(new_states)
  /\ history' = Append(history, [new |-> new_states, calls |-> calls',
                                  listeners |-> state_change_listeners])
  /\ UNCHANGED widgetVars
  /\ request' = Request("notify_states_changed", new_states)
  /\ UNCHANGED rpc

\* a call of MUIState.notify_states_changed
NotifyStatesChanged(new_states) ==
  /\ MUIStateNotify(new_states)
  /\ UNCHANGED widgetVars
  /\ request' = Request("notify_states_changed", new_states)
  /\ UNCHANGED <<rpc, history>>

\* get_state that takes the descriptor out of the held map:
\* self.states.pop(state_id, None)
GetState_pops(state_id) ==
  /\ ret' = [op |-> "get_state", id |-> state_id,
             value |-> get_state(states, state_id), exc |-> "none"]
  /\ states' = [i \in DOMAIN states \ {state_id} |-> states[i]]
  /\ UNCHANGED <<state_change_listeners, calls>>
  /\ UNCHANGED widgetVars
  /\ request' = Request("get_state", state_id)
  /\ UNCHANGED <<rpc, history>>

\* a call of MUIState.get_state
GetState(state_id) ==
  /\ ret' = [op |-> "get_state", id |-> state_id,
             value |-> get_state(states, state_id), exc |-> "none"]
  /\ UNCHANGED <<states, state_change_listeners, calls>>
  /\ UNCHANGED widgetVars
  /\ request' = Request("get_state", state_id)
  /\ UNCHANGED <<rpc, history>>

\* a call of MUIState.get_state_address
GetStateAddress(state_id) ==
  LET r == get_state_address(states, state_id) IN
  /\ ret' = [op |-> "get_state_address", id |-> state_id,
             value |-> r.value, exc |-> r.exc]
  /\ UNCHANGED <<states, state_change_listeners, calls>>
  /\ UNCHANGED widgetVars
  /\ request' = Request("get_state_address", state_id)
  /\ UNCHANGED <<rpc, history>>

\* --------------------------------------------------------- StateListWidget
\* self.state_lists: the four top-level items, named by their attributes
state_lists == <<"active_states", "waiting_states", "complete_states", "error_states">>
Lists == {state_lists[k] : k \in 1..Len(state_lists)}

\* a text is the sequence of its space-separated tokens; "Active (2)" is the
\* word Active and the count (2)
Word(w) == [kind |-> "word", word |-> w, n |-> 0]
CountToken(n) == [kind |-> "count", word |-> "", n |-> n]

\* the texts StateListWidget.__init__ sets
InitialTexts ==
  [header |-> <<Word("State"), Word("List")>>,
   active_states |-> <<Word("Active")>>,
   waiting_states |-> <<Word("Waiting")>>,
   complete_states |-> <<Word("Complete")>>,
   error_states |-> <<Word("Errored")>>]

\* self.state_status_mapping with stopped listed under error_states too
state_status_mapping_overlap ==
  << [list |-> "active_states", statuses |-> {"running"}],
     [list |-> "waiting_states", statuses |-> {"waiting_for_worker", "waiting_for_solver"}],
     [list |-> "complete_states", statuses |-> {"stopped"}],
     [list |-> "error_states", statuses |-> {"stopped", "destroyed"}] >>

\* self.state_status_mapping
state_status_mapping ==
  << [list |-> "active_states", statuses |-> {"running"}],
     [list |-> "waiting_states", statuses |-> {"waiting_for_worker", "waiting_for_solver"}],
     [list |-> "complete_states", statuses |-> {"stopped"}],
     [list |-> "error_states", statuses |-> {"destroyed"}] >>

\* StateListWidget.__init__
WidgetInit ==
  /\ wstates = EmptyMap
  /\ state_items = EmptyMap
  /\ children = [l \in Lists |-> <<>>]
  /\ texts = InitialTexts
  /\ outcome = [exc |-> "none", added |-> {}, updated |-> {}, removed |-> {}]

Range(s) == {s[k] : k \in 1..Len(s)}
Min(S) == CHOOSE x \in S : \A y \in S : x <= y

\* item.parent(): the list that has item among its children
parent(kids, item) == CHOOSE l \in Lists : item \in Range(kids[l])

\* QTreeWidgetItem.removeChild
removeChild(kids, list, item) ==
  [kids EXCEPT ![list] = SelectSeq(@, LAMBDA x : x # item)]

\* QTreeWidgetItem.addChild
addChild(kids, list, item) == [kids EXCEPT ![list] = Append(@, item)]

\* _update_item without the test item.parent() is not state_list: the item
\* is taken out and added again also when its list stays the same
update_item_always_moves(kids, item, state) ==
  LET hits == {k \in 1..Len(state_status_mapping) :
                 state.status \in state_status_mapping[k].statuses} IN
  IF hits = {} THEN kids
  ELSE LET switch_to_list == state_status_mapping[Min(hits)].list IN
       addChild(removeChild(kids, parent(kids, item), item), switch_to_list, item)

\* _update_item that leaves the item where it is
update_item_never_moves(kids, item, state) == kids

\* StateListWidget._update_item: the child lists after it
update_item(kids, item, state) ==
  LET hits == {k \in 1..Len(state_status_mapping) :
                 /\ state.status \in state_status_mapping[k].statuses
                 /\ parent(kids, item) # state_status_mapping[k].list} IN
  IF hits = {} THEN kids
  ELSE LET switch_to_list == state_status_mapping[Min(hits)].list IN
       addChild(removeChild(kids, parent(kids, item), item), switch_to_list, item)

\* _create_item with self.active_states as the parent of every new item
create_item_under_active(kids, state) ==
  LET hits == {k \in 1..Len(state_status_mapping) :
                 state.status \in state_status_mapping[k].statuses} IN
  IF hits = {} THEN [exc |-> "ValueError", item |-> 0, children |-> kids]
  ELSE [exc |-> "none", item |-> state.state_id,
        children |-> addChild(kids, "active_states", state.state_id)]

\* StateListWidget._create_item: the new item, a child of its list from
\* construction on, or ValueError; the item "State <id>" is named by that id
create_item(kids, state) ==
  LET hits == {k \in 1..Len(state_status_mapping) :
                 state.status \in state_status_mapping[k].statuses} IN
  IF hits = {} THEN [exc |-> "ValueError", item |-> 0, children |-> kids]
  ELSE [exc |-> "none", item |-> state.state_id,
        children |-> addChild(kids, state_status_mapping[Min(hits)].list, state.state_id)]

\* the dict d with d[key] = value
DictSet(d, key, value) ==
  [i \in DOMAIN d \cup {key} |-> IF i = key THEN value ELSE d[i]]
\* the dict d after del d[key]
DictDel(d, key) == [i \in DOMAIN d \ {key} |-> d[i]]

\* the first loop of notifyStatesChanged, over new_states.items() in the
\* dict's order; w is the widget as the loop has left it so far
RECURSIVE AddOrUpdateLoop(_, _, _)
AddOrUpdateLoop(order, new_states, w) ==
  IF order = <<>> \/ w.exc # "none" THEN w
  ELSE
    LET state_id == Head(order)
        state == new_states[state_id] IN
    IF state_id \in DOMAIN w.state_items
    THEN AddOrUpdateLoop(Tail(order), new_states,
           [w EXCEPT !.children = update_item(@, w.state_items[state_id], state),
                     !.updated = @ \cup {state_id}])
    ELSE LET c == create_item(w.children, state) IN
         IF c.exc # "none" THEN [w EXCEPT !.exc = c.exc]
         ELSE AddOrUpdateLoop(Tail(order), new_states,
                [w EXCEPT !.children = c.children,
                          !.state_items = DictSet(@, state_id, c.item),
                          !.added = @ \cup {state_id}])

\* the second loop, over set(old_states.keys()) - set(new_states.keys());
\* self.state_items[removed_state_id] raises KeyError for a missing key
RECURSIVE RemoveLoop(_, _)
RemoveLoop(removed_ids, w) ==
  IF removed_ids = {} \/ w.exc # "none" THEN w
  ELSE
    LET removed_state_id == Min(removed_ids) IN
    IF removed_state_id \notin DOMAIN w.state_items THEN [w EXCEPT !.exc = "KeyError"]
    ELSE LET item == w.state_items[removed_state_id] IN
         RemoveLoop(removed_ids \ {removed_state_id},
           [w EXCEPT !.children = removeChild(@, parent(@, item), item),
                     !.state_items = DictDel(@, removed_state_id),
                     !.removed = @ \cup {removed_state_id}])

RECURSIVE TotalCount(_, _)
TotalCount(kids, k) ==
  IF k = 0 THEN 0 ELSE TotalCount(kids, k - 1) + Len(kids[state_lists[k]])

\* StateListWidget._refresh_list_counts: the texts after it
refresh_list_counts(kids, old_texts) ==
  LET header == old_texts.header
      \* title[-1] == ")": the text ends with a count; the slice drops the
      \* last "(" token and the space before it
      title_without_count ==
        IF header[Len(header)].kind = "count" THEN SubSeq(header, 1, Len(header) - 1)
        ELSE header IN
  [t \in DOMAIN old_texts |->
     IF t = "header"
     THEN Append(title_without_count, CountToken(TotalCount(kids, Len(state_lists))))
     ELSE <<Head(old_texts[t]), CountToken(Len(kids[t]))>>]

\* the orders in which a dict with the key set keys can list its items
Orders(keys) ==
  {o \in [1..Cardinality(keys) -> keys] : \A i, j \in DOMAIN o : i # j => o[i] # o[j]}

\* StateListWidget.notifyStatesChanged, its effect on the widget; an
\* exception leaves the method where it is raised
WidgetNotify(new_states, order) ==
  LET old_states == wstates
      w0 == [state_items |-> state_items, children |-> children, exc |-> "none",
             added |-> {}, updated |-> {}, removed |-> {}] IN
  \E w1 \in {AddOrUpdateLoop(order, new_states, w0)} :
  \E w2 \in {RemoveLoop(DOMAIN old_states \ DOMAIN new_states, w1)} :
    /\ state_items' = w2.state_items
    /\ children' = w2.children
    /\ texts' = IF w2.exc = "none" THEN refresh_list_counts(w2.children, texts) ELSE texts
    /\ wstates' = IF w2.exc = "none" THEN new_states ELSE wstates
    /\ outcome' = [exc |-> w2.exc, added |-> w2.added, updated |-> w2.updated,
                   removed |-> w2.removed]

\* a call of StateListWidget.notifyStatesChanged
WidgetNotifyStatesChanged(new_states, order) ==
  /\ WidgetNotify(new_states, order)
  /\ UNCHANGED registryVars
  /\ request' = Request("notifyStatesChanged", new_states)
  /\ UNCHANGED <<rpc, history>>

\* ------------------------------------------------------ the client channel
\* the policy with "maxAttempts": 4
retryPolicy_four_attempts ==
  [maxAttempts |-> 4, initialBackoff |-> 1, maxBackoff |-> 10,
   backoffMultiplier |-> 2, retryableStatusCodes |-> {"UNAVAILABLE"}]

\* the policy with NOT_FOUND among the retryableStatusCodes
retryPolicy_retries_not_found ==
  [maxAttempts |-> 5, initialBackoff |-> 1, maxBackoff |-> 10,
   backoffMultiplier |-> 2, retryableStatusCodes |-> {"UNAVAILABLE", "NOT_FOUND"}]

\* the retryPolicy of the service config that create_client_stub gives the
\* channel; the backoffs in seconds
retryPolicy ==
  [maxAttempts |-> 5, initialBackoff |-> 1, maxBackoff |-> 10,
   backoffMultiplier |-> 2, retryableStatusCodes |-> {"UNAVAILABLE"}]

\* the statuses one attempt of a call can end with
FailureCodes == {"UNAVAILABLE", "INVALID_ARGUMENT", "NOT_FOUND"}
StatusCodes == {"OK"} \cup FailureCodes

RECURSIVE Pow(_, _)
Pow(b, n) == IF n = 0 THEN 1 ELSE b * Pow(b, n - 1)

\* the backoff grown once too often: initialBackoff * backoffMultiplier^n
Backoff_grown_early(policy, n) ==
  LET grown == policy.initialBackoff * Pow(policy.backoffMultiplier, n) IN
  IF grown < policy.maxBackoff THEN grown ELSE policy.maxBackoff

\* the backoff the policy computes before the n-th retry of a call:
\* min(initialBackoff * backoffMultiplier^(n-1), maxBackoff)
Backoff(policy, n) ==
  LET grown == policy.initialBackoff * Pow(policy.backoffMultiplier, n - 1) IN
  IF grown < policy.maxBackoff THEN grown ELSE policy.maxBackoff

\* whether the policy retries a call whose attempt number attempts ended
\* with status
ShouldRetry(policy, status, attempts) ==
  /\ status \in policy.retryableStatusCodes
  /\ attempts < policy.maxAttempts

\* no call has been made on the channel
NoCall ==
  [phase |-> "idle", attempts |-> 0, statuses |-> <<>>, backoffs |-> <<>>,
   delays |-> <<>>, result |-> "none"]

\* create_client_stub: the channel is constructed, no call is in progress
ChannelInit == rpc = NoCall

\* the call after its attempt in flight ended with status, were the channel
\* to start over with a fresh retry budget once the attempts are used up
AfterAttempt_starts_over(r, status) ==
  LET seen == [r EXCEPT !.statuses = Append(@, status)] IN
  IF status = "OK" THEN [seen EXCEPT !.phase = "done", !.result = "OK"]
  ELSE IF ShouldRetry(retryPolicy, status, r.attempts)
       THEN [seen EXCEPT !.phase = "backoff"]
       ELSE IF status \in retryPolicy.retryableStatusCodes
            THEN [NoCall EXCEPT !.phase = "attempt", !.attempts = 1]
            ELSE [seen EXCEPT !.phase = "done", !.result = status]

\* the call after its attempt in flight ended with status: OK is the result,
\* a retryable failure within the attempt budget is followed by a backoff,
\* every other failure is the result
AfterAttempt(r, status) ==
  LET seen == [r EXCEPT !.statuses = Append(@, status)] IN
  IF status = "OK" THEN [seen EXCEPT !.phase = "done", !.result = "OK"]
  ELSE IF ShouldRetry(retryPolicy, status, r.attempts)
       THEN [seen EXCEPT !.phase = "backoff"]
       ELSE [seen EXCEPT !.phase = "done", !.result = status]

\* the caller issues a call through the stub: its first attempt is sent
StartCall ==
  /\ rpc.phase \in {"idle", "done"}
  /\ rpc' = [NoCall EXCEPT !.phase = "attempt", !.attempts = 1]
  /\ request' = Request("call", 0)
  /\ UNCHANGED registryVars
  /\ UNCHANGED widgetVars
  /\ UNCHANGED history

\* the attempt in flight ends with status
AttemptEnds(status) ==
  /\ rpc.phase = "attempt"
  /\ rpc' = AfterAttempt(rpc, status)
  /\ request' = Request("attempt", status)
  /\ UNCHANGED registryVars
  /\ UNCHANGED widgetVars
  /\ UNCHANGED history

\* the backoff timer of the retry fires after delay seconds, a random time
\* up to the backoff the policy computes, and the next attempt is sent
BackoffElapses(delay) ==
  /\ rpc.phase = "backoff"
  /\ delay \in 0..Backoff(retryPolicy, rpc.attempts)
  /\ rpc' = [rpc EXCEPT !.phase = "attempt",
                        !.attempts = @ + 1,
                        !.backoffs = Append(@, Backoff(retryPolicy, rpc.attempts)),
                        !.delays = Append(@, delay)]
  /\ request' = Request("backoff", delay)
  /\ UNCHANGED registryVars
  /\ UNCHANGED widgetVars
  /\ UNCHANGED history

\* -------------------------------------------------------- specifications
\* construction of both objects
NoRequest == Request("none", 0)
Init ==
  MUIStateInit /\ WidgetInit /\ request = NoRequest /\ ChannelInit /\ history = <<>>

\* the registry: registrations and updates
Next ==
  \/ \E callback \in Callbacks : OnStateChange(callback)
  \/ \E new_states \in SampleMaps : NotifyStatesChanged(new_states)

Spec == Init /\ [][Next]_vars

\* the queries, on every map the registry can hold
InitAddress ==
  /\ states \in AddressMaps
  /\ state_change_listeners = <<>>
  /\ calls = <<>>
  /\ ret = NoRet
  /\ WidgetInit
  /\ request = NoRequest
  /\ ChannelInit
  /\ history = <<>>

NextAddress ==
  \/ \E state_id \in StateIds : GetState(state_id)
  \/ \E state_id \in StateIds : GetStateAddress(state_id)

SpecAddress == InitAddress /\ [][NextAddress]_vars

\* the widget: updates with maps of every status, the one outside the enum
\* included, in every dict order
NextWidget ==
  \E new_states \in StatusMaps : \E order \in Orders(DOMAIN new_states) :
    WidgetNotifyStatesChanged(new_states, order)

SpecWidget == Init /\ [][NextWidget]_vars

\* the widget fed by an engine whose statuses are all of the enum
NextWidgetEnum ==
  \E new_states \in EnumMaps : \E order \in Orders(DOMAIN new_states) :
    WidgetNotifyStatesChanged(new_states, order)

SpecWidgetEnum == Init /\ [][NextWidgetEnum]_vars

\* one update as the specification's section 2 has it: the map fetched from
\* the engine is handed to the registry and to the view that renders it
Update(new_states, order) ==
  /\ MUIStateNotify(new_states)
  /\ WidgetNotify(new_states, order)
  /\ request' = Request("update", new_states)
  /\ UNCHANGED <<rpc, history>>

\* updates with the statuses of the end-to-end scenario
NextUpdate ==
  \/ \E callback \in Callbacks : OnStateChange(callback)
  \/ \E new_states \in ScenarioMaps : \E order \in Orders(DOMAIN new_states) :
       Update(new_states, order)

SpecUpdate == Init /\ [][NextUpdate]_vars

\* updates that may carry a status outside the enum
NextUpdateAny ==
  \/ \E callback \in Callbacks : OnStateChange(callback)
  \/ \E new_states \in SampleMaps : \E order \in Orders(DOMAIN new_states) :
       Update(new_states, order)

SpecUpdateAny == Init /\ [][NextUpdateAny]_vars

\* the registry: registrations, updates and the queries between them
NextFrame ==
  \/ \E callback \in Callbacks : OnStateChange(callback)
  \/ \E new_states \in ScenarioMaps : NotifyStatesChanged(new_states)
  \/ \E state_id \in StateIds : GetState(state_id)
  \/ \E state_id \in StateIds : GetStateAddress(state_id)

SpecFrame == Init /\ [][NextFrame]_vars

\* sequences of updates, made one after the other by the one owner
NextSerial ==
  \/ \E callback \in Callbacks : OnStateChange(callback)
  \/ \E new_states \in SerialMaps : SerialNotifyStatesChanged(new_states)

SpecSerial == Init /\ [][NextSerial]_vars

\* the registry with callbacks that raise among those that return
NextRaising ==
  \/ \E callback \in AnyCallbacks : OnStateChange(callback)
  \/ \E new_states \in ScenarioMaps : NotifyStatesChanged(new_states)

SpecRaising == Init /\ [][NextRaising]_vars

\* the registry with callbacks that update it again from inside an update
NextReentrant ==
  \/ \E callback \in Callbacks \cup ReentrantCallbacks : OnStateChange(callback)
  \/ \E new_states \in ScenarioMaps : NotifyStatesChanged(new_states)

SpecReentrant == Init /\ [][NextReentrant]_vars

\* the calls of one caller through the channel, one at a time
MaxBackoffSeconds == retryPolicy.maxBackoff
NextChannel ==
  \/ StartCall
  \/ \E status \in StatusCodes : AttemptEnds(status)
  \/ \E delay \in 0..MaxBackoffSeconds : BackoffElapses(delay)

SpecChannel == Init /\ [][NextChannel]_vars

\* the channel when every attempt in flight ends and every backoff timer fires
SpecChannelFair ==
  /\ Init
  /\ [][NextChannel]_vars
  /\ WF_vars(\E status \in StatusCodes : AttemptEnds(status))
  /\ WF_vars(\E delay \in 0..MaxBackoffSeconds : BackoffElapses(delay))

\* ------------------------------------------------------------------ claims
\* the number of entries of the sequence s that equal x
Count(s, x) == Cardinality({k \in 1..Len(s) : s[k] = x})

\* a step that is a call of MUIState.notify_states_changed
IsNotify == request'.op = "notify_states_changed"

\* C1: after notify_states_changed(new) returns, get_state(id) is the
\* snapshot new[id] for every id of new, and None for every id that was in the
\* held map but is not in new.
C1_GetStateAfterUpdate ==
  [][IsNotify =>
       LET new == request'.arg IN
       /\ \A id \in DOMAIN new : get_state(states', id) = Some(new[id])
       /\ \A id \in DOMAIN states \ DOMAIN new : get_state(states', id) = None]_vars

\* an update has replaced a map that held an id the new map lacks, and has
\* changed the snapshot of an id both maps have
C1_Witness ==
  /\ Len(calls) > 0
  /\ states = calls[1].new
  /\ \E id \in DOMAIN calls[1].old \ DOMAIN states : get_state(states, id) = None
  /\ \E id \in DOMAIN calls[1].old \cap DOMAIN states :
        /\ calls[1].old[id] # states[id]
        /\ get_state(states, id) = Some(states[id])

\* C2: one notify_states_changed(new) invokes every callback registered at
\* the time of the call exactly once, with (old, new) where old is the map held
\* before the call, and every invocation precedes the replacement of the held
\* map; with zero, one or many callbacks.
C2_EveryObserverOnce ==
  [][IsNotify =>
       LET new == request'.arg IN
       /\ Len(calls') = Len(state_change_listeners)
       /\ \A cb \in Callbacks :
             Count([k \in 1..Len(calls') |-> calls'[k].callback], cb)
               = Count(state_change_listeners, cb)
       /\ \A k \in 1..Len(calls') :
             /\ calls'[k].old = states
             /\ calls'[k].new = new
             /\ calls'[k].held = states
       /\ states' = new]_vars

\* two callbacks were invoked by an update that replaced the held map by a
\* different one
C2_Witness ==
  /\ Len(calls) = 2
  /\ calls[1].callback # calls[2].callback
  /\ calls[1].old # calls[1].new
  /\ calls[1].old # EmptyMap
  /\ states = calls[1].new

\* C3: callbacks are invoked in registration order, and a registration
\* appends: it neither removes nor reorders the callbacks registered before.
C3_RegistrationOrder ==
  [][/\ IsNotify =>
          /\ Len(calls') = Len(state_change_listeners)
          /\ \A k \in 1..Len(calls') : calls'[k].callback = state_change_listeners[k]
     /\ request'.op = "on_state_change" =>
          /\ Len(state_change_listeners') = Len(state_change_listeners) + 1
          /\ SubSeq(state_change_listeners', 1, Len(state_change_listeners))
                = state_change_listeners
          /\ state_change_listeners'[Len(state_change_listeners')] = request'.arg]_vars

\* cb2 was registered before cb1 and an update has invoked them in that order
C3_Witness ==
  /\ state_change_listeners = <<"cb2", "cb1">>
  /\ Len(calls) = 2
  /\ calls[1].callback = "cb2"
  /\ calls[2].callback = "cb1"

\* C4: get_state_address returns pc when pc is present (the address 0
\* included), else last_pc when that is present, else None; None for an id the
\* held map lacks; and it raises in none of these cases.
C4_ResolveAddress ==
  ret.op = "get_state_address" =>
    /\ ret.exc = "none"
    /\ ret.id \notin DOMAIN states => ret.value = None
    /\ ret.id \in DOMAIN states =>
          LET d == states[ret.id] IN
          /\ d.pc # None => ret.value = d.pc
          /\ (d.pc = None /\ d.last_pc # None) => ret.value = d.last_pc
          /\ (d.pc = None /\ d.last_pc = None) => ret.value = None

\* the address 0 was returned as pc although last_pc is another address
C4_Witness ==
  /\ ret.op = "get_state_address"
  /\ ret.id \in DOMAIN states
  /\ states[ret.id].pc = Some(0)
  /\ states[ret.id].last_pc = Some(1)
  /\ ret.value = Some(0)

\* a step that is a call of StateListWidget.notifyStatesChanged
IsWidgetCall == request'.op = "notifyStatesChanged"
\* a step that is one update of both objects
IsUpdate == request'.op = "update"

\* C5: the diff of one notifyStatesChanged is determined by ids alone:
\* the removals are keys(old) - keys(new), the additions keys(new) - keys(old),
\* and every id in both is an update (so a change of status removes nothing).
C5_DiffByIdsAlone ==
  [][(IsWidgetCall /\ outcome'.exc = "none") =>
       LET old == DOMAIN wstates
           new == DOMAIN request'.arg IN
       /\ outcome'.removed = old \ new
       /\ outcome'.added = new \ old
       /\ outcome'.updated = new \cap old]_vars

\* C6: the status-to-bucket mapping is total and a partition of the enum:
\* running is under Active, waiting_for_worker and waiting_for_solver under
\* Waiting, stopped under Complete, destroyed under Errored; each of the four
\* buckets lists a status and each status is listed exactly once.
C6_ClassificationTotal ==
  LET m == state_status_mapping
      listsOf(s) == {k \in DOMAIN m : s \in m[k].statuses}
      bucket(s) == texts[m[CHOOSE k \in listsOf(s) : TRUE].list][1].word IN
  /\ \A s \in StateStatus : Cardinality(listsOf(s)) = 1
  /\ \A k \in DOMAIN m : m[k].statuses # {} /\ m[k].statuses \subseteq StateStatus
  /\ {m[k].list : k \in DOMAIN m} = Lists
  /\ Len(m) = Cardinality(Lists)
  /\ bucket("running") = "Active"
  /\ bucket("waiting_for_worker") = "Waiting"
  /\ bucket("waiting_for_solver") = "Waiting"
  /\ bucket("stopped") = "Complete"
  /\ bucket("destroyed") = "Errored"

\* the view holds a waiting_for_solver state under Waiting and a destroyed
\* state under Errored, with the counts shown
C6_Witness ==
  \E i, j \in DOMAIN wstates :
    /\ wstates[i].status = "waiting_for_solver"
    /\ i \in Range(children.waiting_states)
    /\ wstates[j].status = "destroyed"
    /\ j \in Range(children.error_states)
    /\ texts.waiting_states = <<Word("Waiting"), CountToken(1)>>
    /\ texts.error_states = <<Word("Errored"), CountToken(1)>>

\* C7: an update that carries a snapshot whose status is outside the enum
\* fails with a classification error, whether the snapshot's id is new or
\* already known.
C7_UnknownStatusFails ==
  [][(IsWidgetCall /\ \E id \in DOMAIN request'.arg :
                         request'.arg[id].status \notin StateStatus)
       => outcome'.exc = "ValueError"]_vars

\* C8: update(S) right after an update(S) that returned adds nothing and
\* removes nothing, treats every id of S as an update, leaves the held map, the
\* tracked items, the buckets and the counts as the first call left them, and
\* both calls invoke every registered callback.
C8_Idempotent ==
  [][(/\ IsUpdate
      /\ request.op = "update"
      /\ request'.arg = request.arg
      /\ outcome.exc = "none") =>
       LET S == request'.arg IN
       /\ outcome' = [exc |-> "none", added |-> {}, updated |-> DOMAIN S, removed |-> {}]
       /\ states = S /\ states' = S
       /\ wstates = S /\ wstates' = S
       /\ state_items' = state_items
       /\ children' = children
       /\ texts' = texts
       /\ Len(calls) = Len(state_change_listeners)
       /\ Len(calls') = Len(state_change_listeners)
       /\ \A k \in 1..Len(state_change_listeners) :
             /\ calls[k].callback = state_change_listeners[k]
             /\ calls[k].new = S
             /\ calls'[k] = [callback |-> state_change_listeners[k],
                             old |-> S, new |-> S, held |-> S]]_vars

\* a second update with the same two-state map has run, before two callbacks
C8_Witness ==
  /\ request.op = "update"
  /\ Len(calls) = 2
  /\ calls[1].old = calls[1].new
  /\ states = calls[1].new
  /\ wstates = states
  /\ Cardinality(DOMAIN states) > 1
  /\ outcome = [exc |-> "none", added |-> {}, updated |-> DOMAIN states, removed |-> {}]

\* C9: update({}) is a full clear from every reachable state: it returns,
\* the callbacks get (old, {}), and afterwards the held map is empty, no id is
\* tracked and the four buckets have no members.
C9_EmptyMapClears ==
  [][(IsUpdate /\ request'.arg = EmptyMap) =>
       /\ outcome'.exc = "none"
       /\ Len(calls') = Len(state_change_listeners)
       /\ \A k \in 1..Len(calls') : calls'[k].old = states /\ calls'[k].new = EmptyMap
       /\ states' = EmptyMap
       /\ wstates' = EmptyMap
       /\ state_items' = EmptyMap
       /\ \A l \in Lists : children'[l] = <<>>]_vars

NoChildren == [l \in Lists |-> <<>>]
\* registry and view hold map, the ids of map are tracked, the buckets are kids
Holding(map, kids) ==
  /\ states = map
  /\ wstates = map
  /\ state_items = [i \in DOMAIN map |-> i]
  /\ children = kids
\* every registered callback was invoked with (old, new)
Observed(old, new) ==
  /\ Len(calls) = Len(state_change_listeners)
  /\ \A k \in 1..Len(calls) : calls[k].old = old /\ calls[k].new = new

\* C10: from the empty registry, update({1: running}) shows the callbacks
\* ({}, {1: running}) and puts id 1 under Active; then update({1: stopped,
\* 2: running}) shows them old = {1: running}, moves id 1 to Complete and adds
\* id 2 under Active; then update({}) removes both ids and empties the buckets.
C10_Scenario ==
  [][IsUpdate =>
       /\ (Holding(EmptyMap, NoChildren) /\ request'.arg = Scenario1) =>
            /\ Holding(Scenario1, [NoChildren EXCEPT !.active_states = <<1>>])'
            /\ Observed(EmptyMap, Scenario1)'
            /\ outcome' = [exc |-> "none", added |-> {1}, updated |-> {}, removed |-> {}]
       /\ (/\ Holding(Scenario1, [NoChildren EXCEPT !.active_states = <<1>>])
           /\ request'.arg = Scenario2) =>
            /\ Holding(Scenario2, [NoChildren EXCEPT !.active_states = <<2>>,
                                                      !.complete_states = <<1>>])'
            /\ Observed(Scenario1, Scenario2)'
            /\ outcome' = [exc |-> "none", added |-> {2}, updated |-> {1}, removed |-> {}]
       /\ (/\ Holding(Scenario2, [NoChildren EXCEPT !.active_states = <<2>>,
                                                     !.complete_states = <<1>>])
           /\ request'.arg = EmptyMap) =>
            /\ Holding(EmptyMap, NoChildren)'
            /\ Observed(Scenario2, EmptyMap)'
            /\ outcome' = [exc |-> "none", added |-> {}, updated |-> {},
                           removed |-> {1, 2}]]_vars

\* the last step of the scenario has run before a registered callback
C10_Witness ==
  /\ request = Request("update", EmptyMap)
  /\ Holding(EmptyMap, NoChildren)
  /\ Len(calls) > 0
  /\ Observed(Scenario2, EmptyMap)
  /\ outcome.removed = {1, 2}

\* the last status of the call in progress, "none" before its first attempt ends
LastStatus == IF rpc.statuses = <<>> THEN "none" ELSE rpc.statuses[Len(rpc.statuses)]
\* every attempt of the call so far ended with OK or UNAVAILABLE
OnlyUnavailableFailures ==
  \A k \in 1..Len(rpc.statuses) : rpc.statuses[k] \in {"OK", "UNAVAILABLE"}
\* the call has ended with the failure UNAVAILABLE
Exhausted == rpc.phase = "done" /\ rpc.result = "UNAVAILABLE"

\* C11: a call whose attempts fail with UNAVAILABLE alone makes at most 5
\* attempts; the first OK among them is the caller's result, a failure before
\* the 5th attempt is retried, and after 5 failures the caller gets UNAVAILABLE,
\* after exactly 5 attempts and no other result.
C11_RetryBound ==
  OnlyUnavailableFailures =>
    /\ rpc.attempts <= 5
    /\ Len(rpc.statuses) <= rpc.attempts
    /\ LastStatus = "OK" => rpc.phase = "done" /\ rpc.result = "OK"
    /\ (LastStatus = "UNAVAILABLE" /\ Len(rpc.statuses) < 5) => rpc.phase # "done"
    /\ (LastStatus = "UNAVAILABLE" /\ Len(rpc.statuses) = 5) => Exhausted
    /\ rpc.phase = "done" =>
          /\ rpc.result = LastStatus
          /\ rpc.attempts = Len(rpc.statuses)
          /\ rpc.result # "OK" => rpc.attempts = 5

\* four attempts failed with UNAVAILABLE and the fifth is the caller's result
C11_Witness ==
  /\ rpc.statuses = <<"UNAVAILABLE", "UNAVAILABLE", "UNAVAILABLE", "UNAVAILABLE", "OK">>
  /\ rpc.phase = "done"
  /\ rpc.result = "OK"
  /\ rpc.attempts = 5

\* C12: an attempt that fails with a status other than UNAVAILABLE is the
\* last attempt of its call, and its status is the caller's result; such a
\* failure of the first attempt ends the call after exactly 1 attempt.
C12_NonRetryableNotRetried ==
  \A k \in 1..Len(rpc.statuses) :
    rpc.statuses[k] \notin {"OK", "UNAVAILABLE"} =>
      /\ k = Len(rpc.statuses)
      /\ rpc.attempts = k
      /\ rpc.phase = "done"
      /\ rpc.result = rpc.statuses[k]

\* the first attempt failed with NOT_FOUND and the call ended there
C12_Witness ==
  /\ rpc.statuses = <<"NOT_FOUND">>
  /\ rpc.attempts = 1
  /\ rpc.phase = "done"
  /\ rpc.result = "NOT_FOUND"

RECURSIVE Sum(_)
Sum(s) == IF s = <<>> THEN 0 ELSE Head(s) + Sum(Tail(s))

\* C13 as stated: a call whose 5 attempts all fail with UNAVAILABLE has
\* waited 5 backoffs, of at most 1, 2, 4, 8 and 8 seconds, 23 s in all at
\* worst, and no backoff exceeds 10 s.
C13_FiveBackoffs ==
  Exhausted =>
    /\ Len(rpc.backoffs) = 5
    /\ \A k \in 1..Len(rpc.backoffs) :
          /\ rpc.backoffs[k] = <<1, 2, 4, 8, 8>>[k]
          /\ rpc.delays[k] <= rpc.backoffs[k]
          /\ rpc.backoffs[k] <= 10
    /\ Sum(rpc.delays) <= 23

\* C13, amended: a call waits one backoff before each retry, so 4 backoffs
\* across its 5 attempts, of at most 1, 2, 4 and 8 seconds, 15 s in all at
\* worst, and no backoff exceeds 10 s.
C13_BackoffSchedule ==
  /\ Len(rpc.backoffs) <= 4
  /\ Len(rpc.delays) = Len(rpc.backoffs)
  /\ rpc.phase = "attempt" => Len(rpc.backoffs) = rpc.attempts - 1
  /\ \A k \in 1..Len(rpc.backoffs) :
        /\ rpc.backoffs[k] = <<1, 2, 4, 8>>[k]
        /\ rpc.delays[k] <= rpc.backoffs[k]
        /\ rpc.backoffs[k] <= 10
  /\ Sum(rpc.delays) <= 15
  /\ Exhausted => Len(rpc.backoffs) = 4 /\ rpc.attempts = 5

\* all 5 attempts failed and every backoff took its full time
C13_Witness ==
  /\ Exhausted
  /\ rpc.attempts = 5
  /\ rpc.delays = <<1, 2, 4, 8>>
  /\ Sum(rpc.delays) = 15

IsQuery == request'.op \in {"get_state", "get_state_address"}

Superseded(k) == IF k = 1 THEN EmptyMap ELSE history[k - 1].new

\* C16: after the updates update(S1), ..., update(Sn), made one after the
\* other, the held map is Sn, and update(Sk) invoked every callback registered
\* at the time once, with S(k-1) as the old map (the empty map for k = 1) and Sk
\* as the new.
C16_SerialUpdates ==
  /\ states = (IF history = <<>> THEN EmptyMap ELSE history[Len(history)].new)
  /\ \A k \in 1..Len(history) :
        LET h == history[k] IN
        /\ Len(h.calls) = Len(h.listeners)
        /\ \A j \in 1..Len(h.calls) :
              /\ h.calls[j].callback = h.listeners[j]
              /\ h.calls[j].old = Superseded(k)
              /\ h.calls[j].held = Superseded(k)
              /\ h.calls[j].new = h.new

\* three updates with three different maps have run before a callback, the
\* last of them update({})
C16_Witness ==
  /\ Len(history) = 3
  /\ history[1].new = Scenario1
  /\ history[2].new = Scenario2
  /\ history[3].new = EmptyMap
  /\ \A k \in 1..3 : Len(history[k].calls) > 0
  /\ history[3].calls[1].old = Scenario2
  /\ states = EmptyMap

\* the bucket the specification assigns to a status of the enum
ExpectedBucket(status) ==
  CASE status = "running" -> "active_states"
    [] status \in {"waiting_for_worker", "waiting_for_solver"} -> "waiting_states"
    [] status = "stopped" -> "complete_states"
    [] status = "destroyed" -> "error_states"

\* every id of the held map has one item, a child of the bucket of its
\* status and of no other, and the buckets have no other children
Placement ==
  /\ DOMAIN state_items = DOMAIN wstates
  /\ \A i, j \in DOMAIN state_items : i # j => state_items[i] # state_items[j]
  /\ \A id \in DOMAIN wstates : \A l \in Lists :
        Count(children[l], state_items[id])
          = (IF l = ExpectedBucket(wstates[id].status) THEN 1 ELSE 0)
  /\ \A l \in Lists : Range(children[l]) \subseteq {state_items[id] : id \in DOMAIN wstates}

\* C17: with statuses of the enum, after every notifyStatesChanged every id
\* of the last map has exactly one item, that item is a child of exactly one
\* bucket, the one of the id's status, and no bucket has an item of an id the
\* map lacks; an id whose status changed bucket has been moved there, and the
\* ids whose status stayed in their bucket are where they were, in their order.
C17_BucketPlacement ==
  [][IsWidgetCall =>
       /\ outcome'.exc = "none"
       /\ wstates' = request'.arg
       /\ Placement'
       /\ \A l \in Lists :
             LET stays(item) ==
                   \E id \in DOMAIN wstates \cap DOMAIN wstates' :
                     /\ state_items[id] = item
                     /\ ExpectedBucket(wstates[id].status) = l
                     /\ ExpectedBucket(wstates'[id].status) = l IN
             SelectSeq(children'[l], stays) = SelectSeq(children[l], stays)]_vars

\* an update of two known ids has left id 1 under Complete and id 2, waiting
\* for the solver, under Waiting
C17_Witness ==
  /\ request.op = "notifyStatesChanged"
  /\ outcome.updated = {1, 2}
  /\ wstates[1].status = "stopped"
  /\ wstates[2].status = "waiting_for_solver"
  /\ children.complete_states = <<1>>
  /\ children.waiting_states = <<2>>
  /\ children.active_states = <<>>

\* C18: after every notifyStatesChanged(new_states) that returns, the text
\* of each bucket is its name and one count, the number of its items; the
\* header is "State List" and one count, the sum of the four bucket counts; and
\* that total is the number of ids of new_states.
C18_CountsConsistent ==
  [][(IsWidgetCall /\ outcome'.exc = "none") =>
       /\ \A l \in Lists :
             texts'[l] = <<InitialTexts[l][1], CountToken(Len(children'[l]))>>
       /\ texts'.header =
             <<Word("State"), Word("List"),
               CountToken(Len(children'.active_states) + Len(children'.waiting_states)
                          + Len(children'.complete_states) + Len(children'.error_states))>>
       /\ texts'.header[3].n = Cardinality(DOMAIN request'.arg)]_vars

\* C19: after every call of notifyStatesChanged, whether it returned or
\* raised, the ids that state_items tracks are the ids of the held map
\* self.states, and no removal has missed its item.
C19_TrackedIdsAreHeld ==
  /\ DOMAIN state_items = DOMAIN wstates
  /\ outcome.exc # "KeyError"

\* the first raising entry of the list of callbacks, 0 when none raises
FirstRaising(listeners) ==
  LET raising == {k \in 1..Len(listeners) : listeners[k] \in RaisingCallbacks} IN
  IF raising = {} THEN 0 ELSE Min(raising)

\* C20: when a callback raises during notify_states_changed(new), the
\* exception reaches the caller, the held map stays the old map and get_state
\* answers as before, the callbacks registered before the raising one and the
\* raising one itself have been invoked once with (old, new), and those
\* registered after it have not been invoked.
C20_CallbackRaises ==
  [][(IsNotify /\ FirstRaising(state_change_listeners) > 0) =>
       LET f == FirstRaising(state_change_listeners) IN
       /\ ret'.exc = "CallbackError"
       /\ states' = states
       /\ \A id \in StateIds : get_state(states', id) = get_state(states, id)
       /\ Len(calls') = f
       /\ \A k \in 1..f :
             calls'[k] = [callback |-> state_change_listeners[k], old |-> states,
                          new |-> request'.arg, held |-> states]]_vars

\* an update with a new map has raised out of the first of two callbacks,
\* has not invoked the second, and has left the held map, a different one, in
\* place
C20_Witness ==
  /\ request.op = "notify_states_changed"
  /\ ret.exc = "CallbackError"
  /\ Len(state_change_listeners) = 2
  /\ state_change_listeners[1] \in RaisingCallbacks
  /\ state_change_listeners[2] \in Callbacks
  /\ Len(calls) = 1
  /\ calls[1].new = request.arg
  /\ states = calls[1].old
  /\ states # request.arg
  /\ states # EmptyMap

\* the first re-entrant entry of the list of callbacks, 0 when there is none
FirstReentrant(listeners) ==
  LET reentrant == {k \in 1..Len(listeners) : listeners[k] \in ReentrantCallbacks} IN
  IF reentrant = {} THEN 0 ELSE Min(reentrant)

\* C21 as stated: every callback that notify_states_changed invokes finds
\* the old map held, so get_state and get_state_address called from inside it
\* answer against the old map; and when a callback has called
\* notify_states_changed(inner) from inside notify_states_changed(outer), the
\* held map is outer once the outer call has returned.
C21_ObserversSeeOldMap ==
  [][IsNotify =>
       /\ \A k \in 1..Len(calls') : \A id \in StateIds :
             /\ get_state(calls'[k].held, id) = get_state(calls'[k].old, id)
             /\ get_state_address(calls'[k].held, id) = get_state_address(calls'[k].old, id)
       /\ states' = request'.arg]_vars

\* C21, amended: the callbacks invoked before a nested update has returned
\* find the old map held, those of the nested call included, so their queries
\* answer against the old map; the callbacks the outer call invokes after the
\* nested notify_states_changed(inner) are passed the old map but find inner
\* held; and once the outer call has returned the held map is outer.
C21_Reentrancy ==
  [][IsNotify =>
       LET L == state_change_listeners
           n == Len(L)
           f == FirstReentrant(L)
           outer == request'.arg
           Invocation(k, new, held) ==
             [callback |-> L[k], old |-> states, new |-> new, held |-> held] IN
       /\ states' = outer
       /\ ret'.exc = "none"
       /\ f = 0 =>
             /\ Len(calls') = n
             /\ \A k \in 1..n : calls'[k] = Invocation(k, outer, states)
       /\ f > 0 =>
             /\ Len(calls') >= f + n
             /\ \A k \in 1..f : calls'[k] = Invocation(k, outer, states)
             /\ \A k \in 1..n : calls'[f + k] = Invocation(k, InnerMap, states)
             /\ \A k \in (f + n + 1)..Len(calls') : calls'[k].held = InnerMap
             /\ f < n <=> Len(calls') > f + n
             /\ f < n => calls'[f + n + 1] = Invocation(f + 1, outer, InnerMap)
       /\ \A k \in 1..Len(calls') : \A id \in StateIds :
             calls'[k].held = states =>
               /\ get_state(calls'[k].held, id) = get_state(states, id)
               /\ get_state_address(calls'[k].held, id) = get_state_address(states, id)]_vars

\* notify_states_changed(outer) has returned with outer held; its first
\* callback had called notify_states_changed(inner), and its second callback
\* was passed the old map and found inner held, which is neither the old map
\* nor outer
C21_Witness ==
  /\ request.op = "notify_states_changed"
  /\ state_change_listeners = <<"cb_renotify", "cb1">>
  /\ states = request.arg
  /\ states # InnerMap
  /\ Len(calls) = 4
  /\ calls[2].new = InnerMap
  /\ calls[2].held = calls[2].old
  /\ calls[4].callback = "cb1"
  /\ calls[4].new = states
  /\ calls[4].held = InnerMap
  /\ calls[4].old \notin {InnerMap, states}

====
